---- MODULE Spec2Model ----
(***************************************************************************)
(* Model of src/index.js (lines 1-168): the LocalFileDatabase store, its   *)
(* fire-and-forget persistence to db.json, the regex router built by       *)
(* buildRoutePath, the json body middleware and the http.createServer      *)
(* callback with its four route handlers.                                  *)
(*                                                                         *)
(* JavaScript strings are modelled as sequences of one-character strings,  *)
(* objects as functions from keys to values, arrays as sequences.          *)
(* A db.json that exists is taken to hold a document of the shape #persist *)
(* writes ({table: [row, ...]}); anything else is "unreadable".            *)
(***************************************************************************)
EXTENDS Integers, Sequences, FiniteSets, TLC

VARIABLES
    database,    \* LocalFileDatabase.#database
    file,        \* contents of db.json: [ok, data]
    readState,   \* the constructor's fs.readFile promise: "pending" | "settled"
    readData,    \* what that read found in db.json
    writes,      \* the fs.writeFile calls started by #persist and not yet finished
    crashed,     \* an uncaught exception / unhandled rejection ended the process
    last,        \* the last store call: [seq, op, table, id, arg, ret]
    nOps,        \* number of store calls / requests so far
    inserted,    \* history: rows given to insert, not updated or deleted since
    mutDoc,      \* history: the document the latest successful mutation persisted
    prevDoc,     \* history: the document the mutation before that one persisted
    nMut,        \* history: number of successful mutations
    req,         \* the request being served
    res          \* its response

vars == <<database, file, readState, readData, writes, crashed, last, nOps,
          inserted, mutDoc, prevDoc, nMut, req, res>>

\* ---------------------------------------------------------------- bounds

\* store calls in a run of StoreSpec
MaxOps == 3

\* requests in a run of Spec
MaxRequests == 2

\* ---------------------------------------------------------------- values

\* the value `undefined` (no string of characters equals it)
Undefined == <<"undefined">>

IdA == <<"a">>
IdB == <<"b">>
D1 == <<"d", "1">>
D2 == <<"d", "2">>
T1 == <<"t", "1">>
T2 == <<"t", "2">>

Ids == {IdA, IdB}

Tables == {"tasks"}

\* `{}`
EmptyObject == <<>>

\* object literal {id, description}
Task(id, description) == [id |-> id, description |-> description]

\* JSON.stringify of an object drops the keys whose value is undefined
StringifyObject(obj) ==
    [k \in {f \in DOMAIN obj : obj[f] # Undefined} |-> obj[k]]

\* JSON.stringify of an array of rows
StringifyRows(rows) == [i \in 1..Len(rows) |-> StringifyObject(rows[i])]

\* JSON.stringify(this.#database): the document a write carries
Stringify(db) == [t \in DOMAIN db |-> StringifyRows(db[t])]

\* db.json absent, unreadable or unparseable
NoFile == [ok |-> FALSE, data |-> EmptyObject]

FileOf(doc) == [ok |-> TRUE, data |-> doc]

\* what a start of the process would load from db.json
Recover(f) == IF f.ok THEN f.data ELSE EmptyObject

\* the db.json contents a run may start from
InitialFiles == {NoFile, FileOf(EmptyObject), FileOf([tasks |-> <<Task(IdA, D1)>>])}

\* ---------------------------------------------------------------- LocalFileDatabase

\* #persist: fs.writeFile(databasePath, JSON.stringify(this.#database)), not awaited:
\* the document is serialised now, the write finishes later
Persist(ws, db) == Append(ws, Stringify(db))

\* select(table): this.#database[table] ?? []
Select(db, table) == IF table \in DOMAIN db THEN db[table] ELSE <<>>

\* an insert that puts the row in front (unshift)
InsertRowFront(db, table, data) ==
    IF table \in DOMAIN db
    THEN [db EXCEPT ![table] = <<data>> \o @]
    ELSE [t \in DOMAIN db \cup {table} |-> IF t = table THEN <<data>> ELSE db[t]]

\* insert(table, data): push onto the table's array, or create it as [data]
InsertRow(db, table, data) ==
    IF table \in DOMAIN db
    THEN [db EXCEPT ![table] = Append(@, data)]
    ELSE [t \in DOMAIN db \cup {table} |-> IF t = table THEN <<data>> ELSE db[t]]

\* rows.findIndex(row => row.id === id), from position i on: 0-based, -1 when none
RECURSIVE FindIndexFrom(_, _, _)
FindIndexFrom(rows, id, i) ==
    IF i > Len(rows) THEN -1
    ELSE IF rows[i].id = id THEN i - 1
    ELSE FindIndexFrom(rows, id, i + 1)

\* the value of `this.#database[table]?.findIndex(...)` when the table is missing
UndefinedIndex == -2

\* const rowIndex = this.#database[table]?.findIndex(row => row.id === id)
RowIndex(db, table, id) ==
    IF table \in DOMAIN db THEN FindIndexFrom(db[table], id, 1) ELSE UndefinedIndex

\* the check without its `rowIndex < 0` half
NotFoundOnlyUndefined(rowIndex) == rowIndex = UndefinedIndex

\* if (rowIndex == undefined || rowIndex < 0) return false
NotFound(rowIndex) == rowIndex = UndefinedIndex \/ rowIndex < 0

\* { id, ...data }: the keys of data, and id unless data has its own
SpreadRow(id, data) ==
    [k \in {"id"} \cup DOMAIN data |-> IF k \in DOMAIN data THEN data[k] ELSE id]

\* an update that assigns the position after the one found
UpdateRowNext(db, table, rowIndex, id, data) ==
    [db EXCEPT ![table] = [@ EXCEPT ![rowIndex + 2] = SpreadRow(id, data)]]

\* this.#database[table][rowIndex] = { id, ...data }
UpdateRow(db, table, rowIndex, id, data) ==
    [db EXCEPT ![table] = [@ EXCEPT ![rowIndex + 1] = SpreadRow(id, data)]]

\* this.#database[table].splice(rowIndex, 1)
SpliceRow(db, table, rowIndex) ==
    [db EXCEPT ![table] =
        SubSeq(@, 1, rowIndex) \o SubSeq(@, rowIndex + 2, Len(@))]

\* history: the rows of `ins` that no update or delete on (table, id) has named
Forget(ins, table, id) == {e \in ins : ~(e.table = table /\ e.row.id = id)}

\* database.select(table)
DbSelect(table) ==
    /\ last' = [seq |-> last.seq + 1, op |-> "select", table |-> table, id |-> <<>>,
                arg |-> EmptyObject, ret |-> Select(database, table)]
    /\ UNCHANGED <<database, file, readState, readData, writes, inserted, mutDoc, prevDoc, nMut>>

\* database.insert(table, data)
DbInsert(table, data) ==
    /\ database' = InsertRow(database, table, data)
    /\ writes' = Persist(writes, database')
    /\ last' = [seq |-> last.seq + 1, op |-> "insert", table |-> table, id |-> data.id,
                arg |-> data, ret |-> data]
    /\ inserted' = inserted \cup {[table |-> table, row |-> data]}
    /\ mutDoc' = Stringify(database')
    /\ prevDoc' = mutDoc
    /\ nMut' = nMut + 1
    /\ UNCHANGED <<file, readState, readData>>

\* database.update(table, id, data)
DbUpdate(table, id, data) ==
    LET rowIndex == RowIndex(database, table, id) IN
    /\ IF NotFound(rowIndex)
       THEN /\ last' = [seq |-> last.seq + 1, op |-> "update", table |-> table,
                             id |-> id, arg |-> data, ret |-> FALSE]
            /\ UNCHANGED <<database, writes, mutDoc, prevDoc, nMut>>
       ELSE /\ database' = UpdateRow(database, table, rowIndex, id, data)
            /\ writes' = Persist(writes, database')
            /\ last' = [seq |-> last.seq + 1, op |-> "update", table |-> table,
                             id |-> id, arg |-> data, ret |-> TRUE]
            /\ mutDoc' = Stringify(database')
            /\ prevDoc' = mutDoc
            /\ nMut' = nMut + 1
    /\ inserted' = Forget(inserted, table, id)
    /\ UNCHANGED <<file, readState, readData>>

\* database.delete(table, id)
DbDelete(table, id) ==
    LET rowIndex == RowIndex(database, table, id) IN
    /\ IF NotFound(rowIndex)
       THEN /\ last' = [seq |-> last.seq + 1, op |-> "delete", table |-> table,
                             id |-> id, arg |-> EmptyObject, ret |-> FALSE]
            /\ UNCHANGED <<database, writes, mutDoc, prevDoc, nMut>>
       ELSE /\ database' = SpliceRow(database, table, rowIndex)
            /\ writes' = Persist(writes, database')
            /\ last' = [seq |-> last.seq + 1, op |-> "delete", table |-> table,
                             id |-> id, arg |-> EmptyObject, ret |-> TRUE]
            /\ mutDoc' = Stringify(database')
            /\ prevDoc' = mutDoc
            /\ nMut' = nMut + 1
    /\ inserted' = Forget(inserted, table, id)
    /\ UNCHANGED <<file, readState, readData>>

\* ---------------------------------------------------------------- file I/O completing

\* constructor: fs.readFile(...).then(data => { this.#database = JSON.parse(data) })
ReadResolved ==
    /\ ~crashed
    /\ readState = "pending"
    /\ readData.ok
    /\ database' = readData.data
    /\ readState' = "settled"
    /\ UNCHANGED <<file, readData, writes, crashed, last, nOps, inserted, mutDoc, prevDoc, nMut,
                   req, res>>

\* a catch handler that resets the collection before it persists
ReadRejectedResets ==
    /\ ~crashed
    /\ readState = "pending"
    /\ ~readData.ok
    /\ database' = EmptyObject
    /\ writes' = Persist(writes, database')
    /\ readState' = "settled"
    /\ UNCHANGED <<file, readData, crashed, last, nOps, inserted, mutDoc, prevDoc, nMut,
                   req, res>>

\* constructor: .catch(() => this.#persist())
ReadRejected ==
    /\ ~crashed
    /\ readState = "pending"
    /\ ~readData.ok
    /\ writes' = Persist(writes, database)
    /\ readState' = "settled"
    /\ UNCHANGED <<database, file, readData, crashed, last, nOps, inserted, mutDoc, prevDoc, nMut,
                   req, res>>

RemoveAt(s, i) == SubSeq(s, 1, i - 1) \o SubSeq(s, i + 1, Len(s))

\* one of the pending fs.writeFile calls finishes: nothing orders them
WriteCompleted ==
    /\ ~crashed
    /\ \E i \in 1..Len(writes) :
        /\ file' = FileOf(writes[i])
        /\ writes' = RemoveAt(writes, i)
    /\ UNCHANGED <<database, readState, readData, crashed, last, nOps, inserted, mutDoc,
                   prevDoc, nMut, req, res>>

\* one of the pending fs.writeFile calls fails: its promise has no handler, and the
\* rejection ends the process; the file is left as it was or truncated
WriteFailed ==
    /\ ~crashed
    /\ \E i \in 1..Len(writes) :
        /\ file' \in {file, NoFile}
        /\ writes' = RemoveAt(writes, i)
    /\ crashed' = TRUE
    /\ UNCHANGED <<database, readState, readData, last, nOps, inserted, mutDoc, prevDoc, nMut,
                   req, res>>

\* ---------------------------------------------------------------- the store, called directly

RowInputs == {Task(IdA, D1), Task(IdB, D2), [id |-> IdA, title |-> T1, description |-> D1]}

DataInputs == {[description |-> D2], [title |-> T2], [description |-> Undefined]}

CallSelect ==
    /\ ~crashed /\ nOps < MaxOps
    /\ \E table \in Tables : DbSelect(table)
    /\ nOps' = nOps + 1
    /\ UNCHANGED <<crashed, req, res>>

CallInsert ==
    /\ ~crashed /\ nOps < MaxOps
    /\ \E table \in Tables, data \in RowInputs : DbInsert(table, data)
    /\ nOps' = nOps + 1
    /\ UNCHANGED <<crashed, req, res>>

CallUpdate ==
    /\ ~crashed /\ nOps < MaxOps
    /\ \E table \in Tables, id \in Ids, data \in DataInputs : DbUpdate(table, id, data)
    /\ nOps' = nOps + 1
    /\ UNCHANGED <<crashed, req, res>>

CallDelete ==
    /\ ~crashed /\ nOps < MaxOps
    /\ \E table \in Tables, id \in Ids : DbDelete(table, id)
    /\ nOps' = nOps + 1
    /\ UNCHANGED <<crashed, req, res>>

\* ---------------------------------------------------------------- router

\* the characters of the model's URLs and paths
LowerCase == {"a", "b", "c", "d", "e", "h", "i", "k", "l", "m", "o", "p", "r", "s", "t"}
UpperCase == {"X"}
Digits == {"1", "2"}

\* [a-zA-Z], the characters of a parameter name in a path
NameChars == LowerCase \cup UpperCase

\* [a-z0-9\-_], the characters a parameter's value is matched from
ValueChars == LowerCase \cup Digits \cup {"-", "_"}

\* the length of the longest run of characters of `set` in s from position i on
RECURSIVE RunLength(_, _, _)
RunLength(s, i, set) ==
    IF i <= Len(s) /\ s[i] \in set THEN 1 + RunLength(s, i + 1, set) ELSE 0

\* path.replaceAll(/:([a-zA-Z]+)/g, "(?<$1>[a-z0-9\-_]+)"), from position i on:
\* the pattern as a sequence of literal characters and named groups
RECURSIVE CompileFrom(_, _)
CompileFrom(path, i) ==
    IF i > Len(path) THEN <<>>
    ELSE LET n == RunLength(path, i + 1, NameChars) IN
         IF path[i] = ":" /\ n > 0
         THEN <<[kind |-> "group", text |-> SubSeq(path, i + 1, i + n)]>>
              \o CompileFrom(path, i + n + 1)
         ELSE <<[kind |-> "char", text |-> <<path[i]>>]>> \o CompileFrom(path, i + 1)

\* buildRoutePath(path): new RegExp(`^${pathWithParams}`)
buildRoutePath(path) == CompileFrom(path, 1)

NoMatch == [ok |-> FALSE, groups |-> <<>>]

\* groups with name bound to value
Bind(groups, name, value) ==
    [n \in DOMAIN groups \cup {name} |-> IF n = name THEN value ELSE groups[n]]

\* the regex engine on pattern[p..] against url[u..]: a literal character must be
\* there; a group takes the longest run of value characters that lets the rest match
\* (k is the run length still to try). The pattern is anchored at the start only.
RECURSIVE MatchFrom(_, _, _, _, _, _)
MatchFrom(pattern, p, url, u, groups, k) ==
    IF p > Len(pattern) THEN [ok |-> TRUE, groups |-> groups]
    ELSE IF pattern[p].kind = "char"
    THEN IF u <= Len(url) /\ url[u] = pattern[p].text[1]
         THEN MatchFrom(pattern, p + 1, url, u + 1, groups,
                        RunLength(url, u + 1, ValueChars))
         ELSE NoMatch
    ELSE IF k = 0 THEN NoMatch
    ELSE LET rest == MatchFrom(pattern, p + 1, url, u + k,
                               Bind(groups, pattern[p].text, SubSeq(url, u, u + k - 1)),
                               RunLength(url, u + k, ValueChars))
         IN IF rest.ok THEN rest ELSE MatchFrom(pattern, p, url, u, groups, k - 1)

\* url.match(route.url): [ok, groups]; route.url.test(url) is its ok
Match(pattern, url) ==
    MatchFrom(pattern, 1, url, 1, <<>>, RunLength(url, 1, ValueChars))

TasksPath == <<"/", "t", "a", "s", "k", "s">>
TaskIdPath == TasksPath \o <<"/", ":", "i", "d">>

\* the key `id` of req.params
IdKey == <<"i", "d">>

\* const routes = [...]
routes ==
    << [method |-> "GET",    url |-> buildRoutePath(TasksPath),  handler |-> "getTasks"],
       [method |-> "POST",   url |-> buildRoutePath(TasksPath),  handler |-> "postTasks"],
       [method |-> "PUT",    url |-> buildRoutePath(TaskIdPath), handler |-> "putTask"],
       [method |-> "DELETE", url |-> buildRoutePath(TaskIdPath), handler |-> "deleteTask"] >>

\* a find that looks at the patterns alone
FindRouteAnyMethod(method, url) ==
    LET found == {i \in 1..Len(routes) : Match(routes[i].url, url).ok}
    IN  IF found = {} THEN 0 ELSE CHOOSE i \in found : \A j \in found : i <= j

\* routes.find(route => route.method == method && route.url.test(url)), from
\* position i on: the index of the first such route, 0 when there is none
RECURSIVE FindRouteFrom(_, _, _)
FindRouteFrom(method, url, i) ==
    IF i > Len(routes) THEN 0
    ELSE IF routes[i].method = method /\ Match(routes[i].url, url).ok THEN i
    ELSE FindRouteFrom(method, url, i + 1)

FindRoute(method, url) == FindRouteFrom(method, url, 1)

\* the handler the request is routed to, "none" without a route
HandlerOf(method, url) ==
    LET i == FindRoute(method, url) IN IF i = 0 THEN "none" ELSE routes[i].handler

\* const { id } = req.params
ParamId(params) == IF IdKey \in DOMAIN params THEN params[IdKey] ELSE Undefined

\* ---------------------------------------------------------------- requests

Methods == {"GET", "POST", "PUT", "DELETE", "PATCH"}

\* "?search=t1"
SearchT1 == <<"?", "s", "e", "a", "r", "c", "h", "=">> \o T1

\* "/complete"
CompleteSuffix == <<"/", "c", "o", "m", "p", "l", "e", "t", "e">>

Urls == { TasksPath,
          TasksPath \o <<"/", "a">>,
          TasksPath \o <<"/", "a", "X">>,
          TasksPath \o SearchT1,
          TasksPath \o <<"/", "a">> \o CompleteSuffix,
          <<"/">> }

\* request bodies as sent: text that is no JSON (or no body at all), and objects
NotJson == [valid |-> FALSE, value |-> EmptyObject]
RawBodies == { NotJson,
               [valid |-> TRUE, value |-> [description |-> D1]],
               [valid |-> TRUE, value |-> [title |-> T1]],
               [valid |-> TRUE, value |-> [title |-> T1, description |-> D1]],
               [valid |-> TRUE, value |-> [id |-> IdB, description |-> D1]] }

\* req.body = null
NullBody == [null |-> TRUE, value |-> EmptyObject]

\* json: try { req.body = JSON.parse(...) } catch { req.body = null }
ParseBody(raw) == IF raw.valid THEN [null |-> FALSE, value |-> raw.value] ELSE NullBody

\* const { description } = req.body, for a body that is an object
Description(body) ==
    IF "description" \in DOMAIN body.value THEN body.value.description ELSE Undefined

NoRequest ==
    [state |-> "Idle", method |-> "", url |-> <<>>, raw |-> NotJson, body |-> NullBody,
     params |-> <<>>, handler |-> "none"]

EmptyBody == [kind |-> "empty", rows |-> <<>>, message |-> ""]

\* JSON.stringify({ message: "id not found" })
IdNotFoundBody == [kind |-> "message", rows |-> <<>>, message |-> "id not found"]

\* JSON.stringify(data) for the rows select returned
RowsBody(rows) == [kind |-> "rows", rows |-> StringifyRows(rows), message |-> ""]

\* a fresh http.ServerResponse: statusCode 200, no headers, nothing sent
NoResponse == [sent |-> FALSE, statusCode |-> 200, contentType |-> "", body |-> EmptyBody]

\* res.writeHead(status).end(body) / res.end(body)
End(r, status, body) == [r EXCEPT !.sent = TRUE, !.statusCode = status, !.body = body]

RowIds(rows) == {rows[i].id : i \in 1..Len(rows)}
DocIds(doc) == UNION {RowIds(doc[t]) : t \in DOMAIN doc}

\* the ids randomUUID() has to offer, and those already given out: it never repeats one
UUIDs == Ids
UsedIds ==
    DocIds(database) \cup DocIds(file.data) \cup DocIds(readData.data)
    \cup UNION {DocIds(writes[i]) : i \in 1..Len(writes)}
    \cup {e.row.id : e \in inserted}

\* a request arrives: the http.createServer callback starts and awaits json(req, res)
\* (requests are taken one at a time: a handler runs to its end without yielding, so
\* requests in flight together interleave only while their bodies are read)
Receive ==
    /\ ~crashed /\ nOps < MaxRequests
    /\ req.state \in {"Idle", "ResponseSent"}
    /\ \E method \in Methods, url \in Urls, raw \in RawBodies :
        req' = [state |-> "Received", method |-> method, url |-> url, raw |-> raw,
                body |-> NullBody, params |-> <<>>, handler |-> "none"]
    /\ res' = NoResponse
    /\ nOps' = nOps + 1
    /\ UNCHANGED <<database, file, readState, readData, writes, crashed, last, inserted,
                   mutDoc, prevDoc, nMut>>

\* a json(req, res) that decodes the body and sets no header
JsonMiddlewareNoHeader ==
    /\ ~crashed
    /\ req.state = "Received"
    /\ req' = [req EXCEPT !.state = "BodyDecoded", !.body = ParseBody(req.raw)]
    /\ UNCHANGED <<res, database, file, readState, readData, writes, crashed, last, nOps,
                   inserted, mutDoc, prevDoc, nMut>>

\* json(req, res): the body read to its end and decoded, the content type set
JsonMiddleware ==
    /\ ~crashed
    /\ req.state = "Received"
    /\ req' = [req EXCEPT !.state = "BodyDecoded", !.body = ParseBody(req.raw)]
    /\ res' = [res EXCEPT !.contentType = "application/json"]
    /\ UNCHANGED <<database, file, readState, readData, writes, crashed, last, nOps,
                   inserted, mutDoc, prevDoc, nMut>>

\* the callback after `await json(req, res)`, up to the call of the handler
Routed(handler) ==
    /\ ~crashed
    /\ req.state = "BodyDecoded"
    /\ HandlerOf(req.method, req.url) = handler

\* req.params = { ...routeParam.groups }
Params == Match(routes[FindRoute(req.method, req.url)].url, req.url).groups

\* a TypeError thrown in the handler rejects the promise of the async callback; nothing
\* handles the rejection, no response is sent and the process ends
Throw ==
    /\ req' = [req EXCEPT !.state = "Thrown", !.params = Params,
                           !.handler = HandlerOf(req.method, req.url)]
    /\ crashed' = TRUE
    /\ UNCHANGED <<res, database, file, readState, readData, writes, last, inserted,
                   mutDoc, prevDoc, nMut>>

\* GET /tasks
HandleGetTasks ==
    /\ Routed("getTasks")
    /\ DbSelect("tasks")
    /\ req' = [req EXCEPT !.state = "ResponseSent", !.params = Params,
                                   !.handler = "getTasks"]
    /\ res' = End(res, res.statusCode, RowsBody(Select(database, "tasks")))
    /\ UNCHANGED <<crashed, nOps>>

\* POST /tasks
HandlePostTasks ==
    /\ Routed("postTasks")
    /\ IF req.body.null
       THEN Throw
       ELSE /\ \E id \in UUIDs \ UsedIds :
                DbInsert("tasks", Task(id, Description(req.body)))
            /\ req' = [req EXCEPT !.state = "ResponseSent", !.params = Params,
                                   !.handler = "postTasks"]
            /\ res' = End(res, 201, EmptyBody)
            /\ UNCHANGED crashed
    /\ UNCHANGED nOps

\* a PUT that hands the whole body to update
PutDataWholeBody(body) == body.value

\* the data PUT hands to update: { description }, whatever else the body holds
PutData(body) == [description |-> Description(body)]

\* PUT /tasks/:id
HandlePutTask ==
    /\ Routed("putTask")
    /\ IF req.body.null
       THEN Throw
       ELSE /\ DbUpdate("tasks", ParamId(Params), PutData(req.body))
            /\ req' = [req EXCEPT !.state = "ResponseSent", !.params = Params,
                                   !.handler = "putTask"]
            /\ res' = IF last'.ret THEN End(res, 204, EmptyBody)
                      ELSE End(res, 404, IdNotFoundBody)
            /\ UNCHANGED crashed
    /\ UNCHANGED nOps

\* DELETE /tasks/:id
HandleDeleteTask ==
    /\ Routed("deleteTask")
    /\ DbDelete("tasks", ParamId(Params))
    /\ req' = [req EXCEPT !.state = "ResponseSent", !.params = Params,
                                   !.handler = "deleteTask"]
    /\ res' = IF last'.ret THEN End(res, 204, EmptyBody)
              ELSE End(res, 404, IdNotFoundBody)
    /\ UNCHANGED <<crashed, nOps>>

\* no route: return res.writeHead(404).end()
HandleNoRoute ==
    /\ Routed("none")
    /\ req' = [req EXCEPT !.state = "ResponseSent"]
    /\ res' = End(res, 404, EmptyBody)
    /\ UNCHANGED <<database, file, readState, readData, writes, crashed, last, nOps,
                   inserted, mutDoc, prevDoc, nMut>>

\* new LocalFileDatabase(): #database = {}, the read of db.json started
Init ==
    /\ database = EmptyObject
    /\ file \in InitialFiles
    /\ readData = file
    /\ readState = "pending"
    /\ writes = <<>>
    /\ crashed = FALSE
    /\ last = [seq |-> 0, op |-> "none", table |-> "", id |-> <<>>, arg |-> EmptyObject,
               ret |-> FALSE]
    /\ nOps = 0
    /\ inserted = {}
    /\ mutDoc = EmptyObject
    /\ prevDoc = EmptyObject
    /\ nMut = 0
    /\ req = NoRequest
    /\ res = NoResponse

StoreNext ==
    \/ CallSelect
    \/ CallInsert
    \/ CallUpdate
    \/ CallDelete
    \/ ReadResolved
    \/ ReadRejected
    \/ WriteCompleted
    \/ WriteFailed

\* the store driven through its public methods
StoreSpec == Init /\ [][StoreNext]_vars

Next ==
    \/ Receive
    \/ JsonMiddleware
    \/ HandleGetTasks
    \/ HandlePostTasks
    \/ HandlePutTask
    \/ HandleDeleteTask
    \/ HandleNoRoute
    \/ ReadResolved
    \/ ReadRejected
    \/ WriteCompleted
    \/ WriteFailed

\* the server: requests through the HTTP API
Spec == Init /\ [][Next]_vars

\* ---------------------------------------------------------------- properties

\* a row with this id is among the rows select(table) returns
HasId(db, table, id) == \E i \in 1..Len(Select(db, table)) : Select(db, table)[i].id = id

\* this row is among the rows select(table) returns
HasRow(db, table, row) == \E i \in 1..Len(Select(db, table)) : Select(db, table)[i] = row

\* this step is a call of the store's method op
Called(op) == last'.seq # last.seq /\ last'.op = op

\* C1: every row given to insert is among the rows select returns for its table, as
\* long as no update or delete has named its id since, whatever else has happened,
\* the constructor's read settling included.
C1_InsertedRowsAreSelected ==
    \A e \in inserted : HasRow(database, e.table, e.row)

\* the keys the caller of an update names: those of the PUT request's body when the
\* update comes from the PUT handler, those of the data argument otherwise
NamedKeys ==
    IF req.state = "BodyDecoded" THEN DOMAIN req.body.value ELSE DOMAIN last'.arg

\* C2: an update that finds its row merges: every key of the row that the update (the
\* body of the PUT request) does not name is still there afterwards, with its value.
C2_UpdateKeepsUnnamedFields ==
    [][Called("update") /\ last'.ret
        => LET t == last'.table
               i == RowIndex(database, t, last'.id) + 1
           IN \A k \in DOMAIN database[t][i] \ NamedKeys :
                /\ k \in DOMAIN database'[t][i]
                /\ database'[t][i][k] = database[t][i][k]]_vars

\* C3: when delete(table, id) has returned, select(table) holds no row with that id,
\* also when several rows of the table had it.
C3_DeletedIdIsGone ==
    [][Called("delete") => ~HasId(database', last'.table, last'.id)]_vars

\* C4: update and delete on a missing table, or with an id no row of the table has,
\* return false, leave #database as it was and start no write of db.json.
C4_NotFoundChangesNothing ==
    [][(Called("update") \/ Called("delete")) /\ ~HasId(database, last'.table, last'.id)
        => /\ last'.ret = FALSE
           /\ database' = database
           /\ writes' = writes
           /\ file' = file]_vars

\* C4 happens: an update, and a delete, came back false, on a missing table and on a
\* table that has rows
C4_Witness ==
    /\ last.op \in {"update", "delete"}
    /\ last.ret = FALSE
    /\ "tasks" \in DOMAIN database
    /\ Len(database["tasks"]) > 0
    /\ ~HasId(database, "tasks", last.id)
    /\ nMut > 0

\* a start of the process from db.json as it is now would serve the rows of doc
OnDisk(doc) == \A t \in Tables : Select(Recover(file), t) = Select(doc, t)

\* C5: once every write that #persist started has finished, db.json holds the document
\* the latest mutation persisted, whatever the order the writes finished in.
C5_LastMutationIsOnDisk ==
    (~crashed /\ nMut > 0 /\ writes = <<>>) => OnDisk(mutDoc)

\* C6: at any moment (a crash may come at any), db.json reflects every mutation but
\* possibly the most recent one: it holds the document of the latest mutation or of
\* the one before it.
C6_AtMostOneMutationBehind ==
    nMut >= 2 => OnDisk(mutDoc) \/ OnDisk(prevDoc)

\* this step is the constructor's catch handler running
ReadFails == readState = "pending" /\ readState' = "settled" /\ ~readData.ok

\* C7 as stated: when db.json cannot be read or parsed at startup, the store serves an
\* empty collection, the catch handler writes the empty collection to db.json, and rows
\* inserted (before or after the failure is reported) are kept and returned by select.
C7_FailedReadWritesEmpty ==
    /\ [](~readData.ok /\ nMut = 0 => database = EmptyObject)
    /\ [](~readData.ok => C1_InsertedRowsAreSelected)
    /\ [][ReadFails => /\ database' = database
                        /\ writes' = Append(writes, Stringify(EmptyObject))]_vars

\* C7 amended: when db.json cannot be read or parsed at startup, the store serves an
\* empty collection until the first insert, the catch handler starts a write of the
\* collection as it is then (empty unless rows were inserted before the failure was
\* reported), and rows inserted before or after are kept and returned by select.
C7_FailedReadWritesCurrent ==
    /\ [](~readData.ok /\ nMut = 0 => database = EmptyObject)
    /\ [](~readData.ok => C1_InsertedRowsAreSelected)
    /\ [][ReadFails => /\ database' = database
                        /\ writes' = Append(writes, Stringify(database))]_vars

\* C7 happens: the read failed, a POST came before the failure was reported, and the
\* catch handler's write (the later of the two) carries the inserted row
C7_Witness ==
    /\ ~readData.ok
    /\ readState = "settled"
    /\ inserted # {}
    /\ Len(writes) = 2
    /\ writes[1] = Stringify(database)
    /\ writes[2] = Stringify(database)
    /\ writes[2] # Stringify(EmptyObject)
    /\ \A e \in inserted : HasRow(database, e.table, e.row)

\* C8: the flow of a request never ends without a response having been sent.
C8_EndedRequestHasResponse ==
    req.state \in {"ResponseSent", "Thrown"} => res.sent

\* C9: no request and no failure of a read or write of db.json ends the process.
C9_ProcessNeverEnds == ~crashed

\* this step is the handler of PUT /tasks/:id or DELETE /tasks/:id running
PutOrDeleteRuns ==
    /\ req.state = "BodyDecoded"
    /\ req'.state # "BodyDecoded"
    /\ HandlerOf(req.method, req.url) \in {"putTask", "deleteTask"}

\* C10: PUT /tasks/<id> and DELETE /tasks/<id> answer 204 when a row with the id is in
\* the tasks table as the handler runs, and 404 with {"message":"id not found"}
\* otherwise; a 404 leaves the table as it was, a 204 DELETE leaves one row fewer.
C10_PutDeleteStatus ==
    [][PutOrDeleteRuns
        => LET found == HasId(database, "tasks", ParamId(Params)) IN
           /\ res'.sent
           /\ found => res'.statusCode = 204 /\ res'.body = EmptyBody
           /\ ~found => /\ res'.statusCode = 404
                        /\ res'.body = IdNotFoundBody
                        /\ database' = database
           /\ found /\ req.method = "DELETE"
                => Len(Select(database', "tasks")) = Len(Select(database, "tasks")) - 1]_vars

\* the step in which the callback calls the handler of the route it found
Dispatched(handler) ==
    /\ req.state = "BodyDecoded"
    /\ req'.state # "BodyDecoded"
    /\ HandlerOf(req.method, req.url) = handler

\* C11: POST /tasks with a body {title, description} responds 201 with an empty body and
\* appends exactly one row to tasks, whose id is fresh and whose title and description
\* are those of the body
C11_PostStoresTitleAndDescription ==
    [][(/\ Dispatched("postTasks")
        /\ ~req.body.null
        /\ {"title", "description"} \subseteq DOMAIN req.body.value)
       => LET old == Select(database, "tasks")
              new == Select(database', "tasks")
              row == new[Len(new)]
          IN  /\ res'.sent /\ res'.statusCode = 201 /\ res'.body = EmptyBody
              /\ Len(new) = Len(old) + 1
              /\ SubSeq(new, 1, Len(old)) = old
              /\ row.id \notin RowIds(old)
              /\ "description" \in DOMAIN row /\ row.description = req.body.value.description
              /\ "title" \in DOMAIN row /\ row.title = req.body.value.title]_vars

\* the routes that have the method and whose pattern matches a prefix of the URL
Accepting(method, url) ==
    {i \in 1..Len(routes) : routes[i].method = method /\ Match(routes[i].url, url) # NoMatch}

NotFoundEmpty(r) == r.sent /\ r.statusCode = 404 /\ r.body = EmptyBody

\* C12: a request gets 404 with an empty body, the tables and the file untouched,
\* exactly when no route has its method and a pattern matching a prefix of its URL;
\* otherwise the handler of the first such route is invoked, once
C12_NotFoundIffNoRoute ==
    [][LET accepting == Accepting(req.method, req.url)
       IN  /\ (req.state = "BodyDecoded" /\ req'.state # "BodyDecoded")
               => IF accepting = {}
                  THEN /\ NotFoundEmpty(res')
                       /\ UNCHANGED <<database, file, writes, last>>
                       /\ req'.handler = "none"
                  ELSE /\ ~NotFoundEmpty(res')
                       /\ \E i \in accepting :
                            /\ \A j \in accepting : i <= j
                            /\ req'.handler = routes[i].handler
                       /\ last'.seq <= last.seq + 1
           /\ (req.state # "BodyDecoded" /\ req'.state # "Received")
               => /\ req'.handler = req.handler
                  /\ res'.sent = res.sent
                  /\ last'.seq = last.seq]_vars

\* a request no route accepts was answered while the store held rows
C12_Witness ==
    /\ req.state = "ResponseSent"
    /\ Accepting(req.method, req.url) = {}
    /\ NotFoundEmpty(res)
    /\ Select(database, "tasks") # <<>>

\* the path segment of url that follows "/tasks/": up to the next "/" or "?", or the end
Segment(url) ==
    LET rest == SubSeq(url, Len(TasksPath) + 2, Len(url))
        ends == {k \in 1..Len(rest) : rest[k] \in {"/", "?"}}
        stop == IF ends = {} THEN Len(rest) + 1
                ELSE CHOOSE k \in ends : \A j \in ends : k <= j
    IN  SubSeq(rest, 1, stop - 1)

\* C13: for PUT and DELETE on /tasks/<seg> the id passed to the store is the whole
\* segment <seg>; a segment holding another character never makes the handler run with
\* a different id
C13_IdIsWholeSegment ==
    [][(/\ req.state = "BodyDecoded"
        /\ req.method \in {"PUT", "DELETE"}
        /\ last'.seq # last.seq)
       => last'.id = Segment(req.url)]_vars

\* sub occurs in s
Contains(s, sub) ==
    \E k \in 0..(Len(s) - Len(sub)) : SubSeq(s, k + 1, k + Len(sub)) = sub

SearchKey == <<"?", "s", "e", "a", "r", "c", "h", "=">>

HasSearch(url) == Contains(url, SearchKey)

\* the value of the query parameter search
SearchTerm(url) ==
    LET k == CHOOSE j \in 0..(Len(url) - Len(SearchKey)) :
                 SubSeq(url, j + 1, j + Len(SearchKey)) = SearchKey
    IN  SubSeq(url, k + Len(SearchKey) + 1, Len(url))

FieldContains(row, key, term) ==
    key \in DOMAIN row /\ row[key] # Undefined /\ Contains(row[key], term)

\* the rows GET /tasks is to return for url
Searched(rows, url) ==
    LET Hit(row) == \/ FieldContains(row, "title", SearchTerm(url))
                    \/ FieldContains(row, "description", SearchTerm(url))
    IN  IF HasSearch(url) THEN SelectSeq(rows, Hit) ELSE rows

\* C14: GET /tasks responds 200 with the array of the tasks rows; with the query
\* parameter search, the array holds exactly the rows whose title or description
\* contains the search substring
C14_GetReturnsSearchedRows ==
    [][Dispatched("getTasks")
       => /\ res'.sent /\ res'.statusCode = 200
          /\ res'.body = RowsBody(Searched(Select(database, "tasks"), req.url))]_vars

\* row has a completed_at that is not null
Completed(row) == "completed_at" \in DOMAIN row /\ row.completed_at # <<"null">>

RowOf(db, table, id) ==
    LET rows == Select(db, table)
    IN  rows[CHOOSE i \in 1..Len(rows) : rows[i].id = id]

\* C15: PATCH /tasks/<id>/complete on an existing row responds 204 and toggles the
\* row's completed_at between null and a time (so that two calls restore it); on an
\* absent id it responds 404
C15_PatchCompleteToggles ==
    [][(/\ req.state = "BodyDecoded" /\ req'.state # "BodyDecoded"
        /\ req.method = "PATCH"
        /\ req.url = TasksPath \o <<"/">> \o Segment(req.url) \o CompleteSuffix)
       => LET id == Segment(req.url)
          IN  IF HasId(database, "tasks", id)
              THEN /\ res'.sent /\ res'.statusCode = 204
                   /\ HasId(database', "tasks", id)
                   /\ Completed(RowOf(database', "tasks", id))
                        # Completed(RowOf(database, "tasks", id))
              ELSE res'.sent /\ res'.statusCode = 404]_vars

JsonContentType == "application/json"

\* C16: every response sent, a 404 or one with an empty body included, carries
\* Content-Type: application/json, and the header is set before any handler runs
C16_EveryResponseIsJson ==
    /\ res.sent => res.contentType = JsonContentType
    /\ req.state \in {"BodyDecoded", "ResponseSent", "Thrown"}
        => res.contentType = JsonContentType

\* a 404 with an empty body was sent with the header
C16_Witness ==
    /\ NotFoundEmpty(res)
    /\ req.handler = "none"
    /\ res.contentType = JsonContentType

\* C17: select returns the rows in insertion order: insert appends at the end, update
\* keeps the updated row at its position, delete removes one row and keeps the order of
\* the others; select on a table never inserted into returns the empty sequence and does
\* not create the table
C17_InsertionOrderIsKept ==
    [][LET old == Select(database, last'.table)
           new == Select(database', last'.table)
       IN  /\ Called("select")
               => /\ last'.ret = old
                  /\ database' = database
                  /\ last'.table \notin DOMAIN database
                      => last'.ret = <<>> /\ last'.table \notin DOMAIN database'
           /\ Called("insert") => new = Append(old, last'.arg)
           /\ (Called("update") /\ last'.ret)
               => /\ Len(new) = Len(old)
                  /\ \E k \in 1..Len(old) :
                        /\ old[k].id = last'.id /\ new[k].id = last'.id
                        /\ \A j \in 1..Len(old) \ {k} : new[j] = old[j]
           /\ (Called("delete") /\ last'.ret)
               => \E k \in 1..Len(old) :
                        /\ old[k].id = last'.id
                        /\ new = SubSeq(old, 1, k - 1) \o SubSeq(old, k + 1, Len(old))
           /\ ((Called("update") \/ Called("delete")) /\ ~last'.ret) => new = old]_vars

\* the first of two rows was deleted and the second is what remains
C17_Witness ==
    /\ last.op = "delete" /\ last.ret /\ last.id = IdA
    /\ prevDoc = Stringify([tasks |-> <<Task(IdA, D1), Task(IdB, D2)>>])
    /\ Select(database, "tasks") = <<Task(IdB, D2)>>

\* C18: in every state reached through the HTTP API from an empty or duplicate-free
\* snapshot, randomUUID never returning an id already present, the rows of tasks have
\* pairwise distinct ids
C18_IdsAreDistinct ==
    LET rows == Select(database, "tasks")
    IN  \A i, j \in 1..Len(rows) : rows[i].id = rows[j].id => i = j

\* a PUT updated one of two rows
C18_Witness ==
    /\ req.state = "ResponseSent" /\ req.handler = "putTask" /\ res.statusCode = 204
    /\ Len(Select(database, "tasks")) = 2
    /\ last.op = "update" /\ last.ret

\* C19: a PUT /tasks/<id> never changes the id of a row, the number of rows, or a row
\* other than the one whose id is <id>, whatever its body holds, an id field included
C19_PutFrame ==
    [][Dispatched("putTask")
       => LET old == Select(database, "tasks")
              new == Select(database', "tasks")
          IN  /\ Len(new) = Len(old)
              /\ \A k \in 1..Len(old) :
                    /\ new[k].id = old[k].id
                    /\ old[k].id # ParamId(Params) => new[k] = old[k]]_vars

\* a PUT whose body carries an id of its own was answered 204, two rows in the table
C19_Witness ==
    /\ req.state = "ResponseSent" /\ req.handler = "putTask" /\ res.statusCode = 204
    /\ ~req.body.null /\ "id" \in DOMAIN req.body.value
    /\ req.body.value.id # ParamId(req.params)
    /\ Len(Select(database, "tasks")) = 2
    /\ last.op = "update" /\ last.ret

====
